---- MODULE Spec2Model ----
(***************************************************************************)
(* UptimeMonitor: the rolling uptime / disruption engine of uptime.py and  *)
(* the /uptime query of api.py.                                            *)
(*                                                                         *)
(* A log line is a record [t, kind, ms, stamp]: t is the bracketed unix    *)
(* timestamp, kind is the suffix the code tests with endswith ("ms",       *)
(* "success", "FAILED", or "other" for any other suffix) and ms is the     *)
(* integer in front of "ms" on a START line (0 on the other lines). stamp  *)
(* says what the first segment of the line looks like: "int" for a         *)
(* bracketed integer, "word" for a bracketed non-integer, "none" when the  *)
(* line has no bracketed first segment; the lines the monitor writes have  *)
(* stamp = "int".                                                          *)
(*                                                                         *)
(* Python floats are modelled as exact reduced fractions [n, d]; the       *)
(* quantities of the model are small integers, for which the float         *)
(* comparisons of the code (< 80, > 90, == 0) agree with the exact ones.   *)
(* Python's None is the record with some = FALSE.                          *)
(* Sequences are 1-based: Python's log[i] is log[i + 1] here.              *)
(***************************************************************************)
EXTENDS Integers, Sequences, FiniteSets, TLC

VARIABLES
    log,          \* the lines of the current day's log file / the argument of a call
    pc,           \* where the monitor process (or the called function) stands
    day,          \* number of day changes the main loop has gone through
    precomputes,  \* the precomputes/ directory: the daily aggregates written so far
    response,     \* the answer of the /uptime query, once it was made
    ret,          \* the value returned by a direct call of an engine function
    report,       \* the monthly disruption report written last
    handler,      \* the date of the log file the logging handler appends to
    start_day,    \* start_monitor's start_day
    written       \* the entries of the log files, as pairs [file, stamp] of dates

vars == <<log, pc, day, precomputes, response, ret, report, handler, start_day, written>>

\* the state of the main loop's logging
logging == <<handler, start_day, written>>

----------------------------------------------------------------------------
(* Bounds of the model *)

MaxLen == 4        \* lines in the first day's log
MaxToday == 1      \* lines in the log of a later day
MaxDays == 1       \* day changes
MaxSection == 4    \* lines in the argument of a direct call
MaxRaw == 3        \* lines in a log file that holds malformed lines
DaysPerMonth == 2  \* days in a month of the model's calendar
MaxFiles == 2      \* daily aggregates in the precomputes/ directory
MaxMidnights == 2  \* midnights the wall clock crosses while the main loop runs

(* Program constants *)

DefaultPeriod == 2000     \* period=2000, uptime.py:67 and :102
WindowSeconds == 60       \* get_period_before(log, i, 60), uptime.py:114
LookbackHours == 24       \* delta_hours < -24, uptime.py:108
SecondsPerHour == 3600    \* 60 * 60, uptime.py:106
EnterThreshold == 80      \* uptime[1] < 80, uptime.py:137
ExitThreshold == 90       \* uptime[1] > 90, uptime.py:140
Percent == 100            \* 100 * accounted_uptime / ..., uptime.py:95
HoursPerDay == 24         \* 24*60*60, uptime.py:152
MonthsPerYear == 12       \* tm_mon in [1,12], uptime.py:199

(* Input sets *)

Periods == {0, 500, 2000}   \* --period values written on START lines
FnPeriods == {0, 500}             \* START lines in the argument of a direct call
Deltas == {0, 60}                 \* seconds between two consecutive lines
Spans == {60, 120}                \* period argument of get_period_before
Lags == {0, 60}                   \* seconds after midnight at which the daily task runs
Since == {-1, 0, 1}               \* ?since= date, in days relative to today
BadStamps == {"word", "none"}     \* first segments int() does not take
RawKinds == {"success", "other"}  \* suffixes of the lines without a timestamp
Patterns == {"none", "early", "both"}   \* disruptions of a day

----------------------------------------------------------------------------
(* Values *)

None == [some |-> FALSE, n |-> 0, d |-> 1]

RECURSIVE GCD(_, _)
GCD(a, b) == IF b = 0 THEN a ELSE GCD(b, a % b)

\* the float n/d (n >= 0, d > 0), as a reduced fraction
Frac(n, d) ==
    LET g == GCD(n, d)
    IN  [some |-> TRUE, n |-> n \div g, d |-> d \div g]

Int2Float(k) == Frac(k, 1)
FloatLt(a, k) == a.n < k * a.d
FloatGt(a, k) == a.n > k * a.d
FloatAdd(a, b) == Frac(a.n * b.d + b.n * a.d, a.d * b.d)
FloatDiv(a, k) == Frac(a.n, a.d * k)

Line(t, kind, ms) == [t |-> t, kind |-> kind, ms |-> ms, stamp |-> "int"]

\* a line whose first segment is not a bracketed integer
RawLine(t, kind, stamp) == [t |-> t, kind |-> kind, ms |-> 0, stamp |-> stamp]

----------------------------------------------------------------------------
(* uptime.py: the engine *)

\* int(segments[0][1:-1]) returns: the first segment is a bracketed integer
\* (otherwise ValueError, or IndexError on a line without segments)
timestamp_parses(line) == line.stamp = "int"

get_log_entry_time(line) == line.t

\* the while loop of get_period_before; returns the final end_at
RECURSIVE scan_back(_, _, _, _)
scan_back(lines, start_from, end_at, period) ==
    IF end_at > 1
       /\ get_log_entry_time(lines[start_from]) - get_log_entry_time(lines[end_at]) < period
    THEN scan_back(lines, start_from, end_at - 1, period)
    ELSE end_at

get_period_before(lines, start_from, period) ==
    SubSeq(lines, scan_back(lines, start_from, start_from, period), start_from)

\* walk_line with the START line's period ignored (a variant the weighting must exclude)
walk_line_period_kept(acc, line) ==
    IF acc.raised \/ line.kind = "ms" THEN acc
    ELSE IF ~acc.period.some THEN [acc EXCEPT !.raised = TRUE]
    ELSE IF line.kind = "success" THEN [acc EXCEPT !.up = acc.up + acc.period.n]
    ELSE [acc EXCEPT !.down = acc.down + acc.period.n]

\* one iteration of the for loop of calculate_uptime_rolling
\* acc = [period, up, down, raised]; period is None or [some, n, d] with d = 1
walk_line(acc, line) ==
    IF acc.raised THEN acc
    ELSE IF line.kind = "ms"
    THEN [acc EXCEPT !.period = Int2Float(line.ms)]
    ELSE IF line.kind = "success"
    THEN IF acc.period.some
         THEN [acc EXCEPT !.up = acc.up + acc.period.n]
         ELSE [acc EXCEPT !.raised = TRUE]     \* int += None: TypeError
    ELSE IF line.kind = "FAILED"
    THEN IF acc.period.some
         THEN [acc EXCEPT !.down = acc.down + acc.period.n]
         ELSE [acc EXCEPT !.raised = TRUE]
    ELSE acc

RECURSIVE walk(_, _, _)
walk(section, i, acc) ==
    IF i > Len(section) THEN acc
    ELSE walk(section, i + 1, walk_line(acc, section[i]))

\* the result tuple (valid, section_uptime, period), or raised
rolling_result(acc) ==
    IF acc.raised
    THEN [raised |-> TRUE, valid |-> FALSE, ratio |-> None, period |-> None]
    ELSE IF acc.up + acc.down = 0
    THEN [raised |-> FALSE, valid |-> FALSE, ratio |-> None, period |-> None]
    ELSE [raised |-> FALSE, valid |-> TRUE,
          ratio |-> Frac(Percent * acc.up, acc.up + acc.down),
          period |-> acc.period]

calculate_uptime_rolling(section, period) ==
    rolling_result(walk(section, 1,
        [period |-> period, up |-> 0, down |-> 0, raised |-> FALSE]))

\* one iteration of the for loop of calculate_log_rolling_uptimes, at line i
\* st = [uptimes, period, raised]; now is time.time()
roll_line(lines, i, st, give_24hr_delta, now) ==
    LET delta_t == get_log_entry_time(lines[i]) - now
        r == calculate_uptime_rolling(
                 get_period_before(lines, i, WindowSeconds), st.period)
        position == IF give_24hr_delta
                    THEN Frac(delta_t, SecondsPerHour)      \* delta_hours
                    ELSE get_log_entry_time(lines[i])
    IN  IF st.raised THEN st
        ELSE IF ~timestamp_parses(lines[i]) THEN [st EXCEPT !.raised = TRUE]
        ELSE IF delta_t < -(LookbackHours * SecondsPerHour) THEN st    \* continue
        ELSE IF r.raised THEN [st EXCEPT !.raised = TRUE]
        ELSE [uptimes |-> IF r.valid
                          THEN Append(st.uptimes, [pos |-> position, ratio |-> r.ratio])
                          ELSE st.uptimes,
              period |-> r.period,
              raised |-> FALSE]

\* the loop state of calculate_log_rolling_uptimes after the lines 1..upto
RECURSIVE roll(_, _, _, _)
roll(lines, upto, give_24hr_delta, now) ==
    IF upto = 0
    THEN [uptimes |-> <<>>, period |-> Int2Float(DefaultPeriod), raised |-> FALSE]
    ELSE roll_line(lines, upto, roll(lines, upto - 1, give_24hr_delta, now),
                   give_24hr_delta, now)

calculate_log_rolling_uptimes(lines, give_24hr_delta, now) ==
    roll(lines, Len(lines), give_24hr_delta, now)

\* segment_step entering a disruption at 80 already (<= instead of <)
segment_step_enter_at_80(st, uptime) ==
    IF ~st.in_disruption /\ ~FloatGt(uptime.ratio, EnterThreshold)
    THEN [st EXCEPT !.start_time = uptime.pos, !.in_disruption = TRUE]
    ELSE IF st.in_disruption /\ FloatGt(uptime.ratio, ExitThreshold)
    THEN [st EXCEPT !.disruptions =
                        Append(st.disruptions, [start |-> st.start_time, end |-> uptime.pos]),
                    !.in_disruption = FALSE]
    ELSE st

\* segment_step with start and end exchanged in the appended interval
segment_step_swapped(st, uptime) ==
    IF ~st.in_disruption /\ FloatLt(uptime.ratio, EnterThreshold)
    THEN [st EXCEPT !.start_time = uptime.pos, !.in_disruption = TRUE]
    ELSE IF st.in_disruption /\ FloatGt(uptime.ratio, ExitThreshold)
    THEN [st EXCEPT !.disruptions =
                        Append(st.disruptions, [start |-> uptime.pos, end |-> st.start_time]),
                    !.in_disruption = FALSE]
    ELSE st

\* one iteration of the for loop of calculate_disruptions
\* st = [start_time, in_disruption, disruptions]
segment_step(st, uptime) ==
    IF ~st.in_disruption /\ FloatLt(uptime.ratio, EnterThreshold)
    THEN [st EXCEPT !.start_time = uptime.pos, !.in_disruption = TRUE]
    ELSE IF st.in_disruption /\ FloatGt(uptime.ratio, ExitThreshold)
    THEN [st EXCEPT !.disruptions =
                        Append(st.disruptions, [start |-> st.start_time, end |-> uptime.pos]),
                    !.in_disruption = FALSE]
    ELSE st

\* the loop state of calculate_disruptions after the first k samples
RECURSIVE segment(_, _)
segment(uptimes, k) ==
    IF k = 0
    THEN [start_time |-> 0, in_disruption |-> FALSE, disruptions |-> <<>>]
    ELSE segment_step(segment(uptimes, k - 1), uptimes[k])

\* returned_disruptions reporting the interval still open at the end of the series
returned_disruptions_with_open(st) ==
    IF st.in_disruption
    THEN Append(st.disruptions, [start |-> st.start_time, end |-> st.start_time])
    ELSE st.disruptions

\* what calculate_disruptions returns after its loop
returned_disruptions(st) == st.disruptions

calculate_disruptions(lines, now) ==
    LET u == calculate_log_rolling_uptimes(lines, FALSE, now)
    IN  IF u.raised
        THEN [raised |-> TRUE, disruptions |-> <<>>]
        ELSE [raised |-> FALSE,
              disruptions |-> returned_disruptions(segment(u.uptimes, Len(u.uptimes)))]

\* the "daily-uptime" entry: calculate_uptime_rolling(log)[1] or 0.0
daily_uptime(lines) ==
    LET r == calculate_uptime_rolling(lines, Int2Float(DefaultPeriod)).ratio
    IN  IF ~r.some \/ r.n = 0 THEN Int2Float(0) ELSE r

\* the dictionary generate_precompute dumps (json keeps the numbers as they are)
generate_precompute(lines, now) ==
    LET d == calculate_disruptions(lines, now)
    IN  [raised |-> d.raised,
         daily_uptime |-> daily_uptime(lines),
         disruptions |-> d.disruptions]

----------------------------------------------------------------------------
(* api.py: the /uptime query *)

\* sum(overall_uptime), a list of floats
RECURSIVE float_sum(_, _)
float_sum(values, i) ==
    IF i > Len(values) THEN Int2Float(0)
    ELSE FloatAdd(values[i], float_sum(values, i + 1))

\* the loop over the precomputes: the "daily-uptime" values dated at or after since
RECURSIVE historical_uptime(_, _, _)
historical_uptime(files, i, start_date) ==
    IF i > Len(files) THEN <<>>
    ELSE IF start_date - files[i].date > 0
    THEN historical_uptime(files, i + 1, start_date)
    ELSE <<files[i].daily_uptime>> \o historical_uptime(files, i + 1, start_date)

\* today_uptime: 1 when today's log is missing, else section_uptime / 100
today_uptime(lines, found) ==
    IF ~found THEN [raised |-> FALSE, value |-> Int2Float(1)]
    ELSE LET r == calculate_uptime_rolling(lines, Int2Float(DefaultPeriod)).ratio
         IN  IF ~r.some
             THEN [raised |-> TRUE, value |-> None]      \* None / 100: TypeError
             ELSE [raised |-> FALSE, value |-> FloatDiv(r, Percent)]

\* the handler of GET /uptime; today is the current day, since_date the ?since= day
uptime(files, lines, found, today, since_date) ==
    LET t == today_uptime(lines, found)
        overall_uptime == historical_uptime(files, 1, since_date) \o <<t.value>>
        average_uptime == FloatDiv(float_sum(overall_uptime, 1), Len(overall_uptime))
    IN  IF since_date > today
        THEN [status |-> "HTTPException", uptime |-> None]
        ELSE IF t.raised
        THEN [status |-> "TypeError", uptime |-> None]
        ELSE IF FloatLt(average_uptime, 0) \/ FloatGt(average_uptime, Percent)
        THEN [status |-> "ValidationError", uptime |-> None]
        ELSE [status |-> "UptimeReport", uptime |-> average_uptime]

\* one iteration of the for loop of process_log_file; st = [tests, raised]
process_line(st, line) ==
    IF st.raised THEN st
    ELSE IF ~timestamp_parses(line) THEN [st EXCEPT !.raised = TRUE]
    ELSE IF line.kind \in {"FAILED", "success"}
    THEN [st EXCEPT !.tests = Append(st.tests, [timestamp |-> line.t, result |-> line.kind])]
    ELSE st

\* the loop state of process_log_file after the first k lines
RECURSIVE process_lines(_, _)
process_lines(lines, k) ==
    IF k = 0 THEN [tests |-> <<>>, raised |-> FALSE]
    ELSE process_line(process_lines(lines, k - 1), lines[k])

process_log_file(lines) == process_lines(lines, Len(lines))

----------------------------------------------------------------------------
(* The monitor process and the query *)

NoResponse == [status |-> "none", uptime |-> None]
NoReport == [year |-> 0, month |-> 0, disruptions |-> <<>>]
NoDate == -1
NoCall == [fn |-> "none", start_from |-> 0, span |-> 0, p0 |-> None,
           window |-> <<>>, out |-> <<>>,
           result |-> [raised |-> FALSE, valid |-> FALSE, ratio |-> None, period |-> None]]

SecondsPerDay == HoursPerDay * SecondsPerHour
Midnight(k) == k * SecondsPerDay

\* the timestamp of the next line: d seconds after the last one
NextTime(lines, today, d) ==
    IF lines = <<>> THEN Midnight(today) ELSE lines[Len(lines)].t + d

MaxLines == IF day = 0 THEN MaxLen ELSE MaxToday

Init ==
    /\ log = <<>>
    /\ pc = "idle"
    /\ day = 0
    /\ precomputes = <<>>
    /\ response = NoResponse
    /\ ret = NoCall
    /\ report = NoReport
    /\ handler = NoDate
    /\ start_day = NoDate
    /\ written = {}

\* start_monitor, line 282: the START line, with the period
LogStart(p, d) ==
    /\ pc \in {"idle", "monitor"}
    /\ response = NoResponse
    /\ Len(log) < MaxLines
    /\ log' = Append(log, Line(NextTime(log, day, d), "ms", p))
    /\ pc' = "monitor"
    /\ UNCHANGED <<day, precomputes, response, ret, report, logging>>

\* start_monitor, lines 290-291
LogSuccess(d) ==
    /\ pc = "monitor"
    /\ response = NoResponse
    /\ Len(log) < MaxLines
    /\ log' = Append(log, Line(NextTime(log, day, d), "success", 0))
    /\ UNCHANGED <<pc, day, precomputes, response, ret, report, logging>>

\* start_monitor, lines 292-293
LogFailed(d) ==
    /\ pc = "monitor"
    /\ response = NoResponse
    /\ Len(log) < MaxLines
    /\ log' = Append(log, Line(NextTime(log, day, d), "FAILED", 0))
    /\ UNCHANGED <<pc, day, precomputes, response, ret, report, logging>>

\* The day changes: start_monitor returns, the main loop opens the new day's file and
\* runs the daily task lag seconds after midnight. marked: the file generate_precompute
\* looks for (line 160) exists.
NewDay(lag, marked) ==
    /\ pc = "monitor"
    /\ response = NoResponse
    /\ day < MaxDays
    /\ LET p == generate_precompute(log, Midnight(day + 1) + lag)
       IN  /\ pc' = IF marked /\ p.raised THEN "crashed" ELSE "idle"
           /\ precomputes' =
                  IF marked /\ ~p.raised
                  THEN Append(precomputes,
                              [date |-> day, daily_uptime |-> p.daily_uptime,
                               disruptions |-> p.disruptions])
                  ELSE precomputes
    /\ log' = <<>>
    /\ day' = day + 1
    /\ UNCHANGED <<response, ret, report, logging>>

\* GET /uptime?since=...; found: today's log file exists
UptimeQuery(since, found) ==
    /\ pc \in {"idle", "monitor"}
    /\ response = NoResponse
    /\ found \/ log = <<>>
    /\ response' = uptime(precomputes, log, found, day, day + since)
    /\ UNCHANGED <<log, pc, day, precomputes, ret, report, logging>>

\* the monitor process alone
Next ==
    \/ \E p \in Periods, d \in Deltas : LogStart(p, d)
    \/ \E d \in Deltas : LogSuccess(d)
    \/ \E d \in Deltas : LogFailed(d)
    \/ \E lag \in Lags, marked \in BOOLEAN : NewDay(lag, marked)

Spec == Init /\ [][Next]_vars

\* the monitor process and the API server, which answers one query
NextApi ==
    \/ \E since \in Since, found \in BOOLEAN : UptimeQuery(since, found)
    \/ Next

SpecApi == Init /\ [][NextApi]_vars

----------------------------------------------------------------------------
(* Direct calls of the engine's functions on arbitrary line lists *)

InitFn ==
    /\ log = <<>>
    /\ pc = "input"
    /\ day = 0
    /\ precomputes = <<>>
    /\ response = NoResponse
    /\ ret = NoCall
    /\ report = NoReport
    /\ handler = NoDate
    /\ start_day = NoDate
    /\ written = {}

\* the caller builds the argument, one line at a time
ArgStart(p, d) ==
    /\ pc = "input"
    /\ Len(log) < MaxSection
    /\ log' = Append(log, Line(NextTime(log, 0, d), "ms", p))
    /\ UNCHANGED <<pc, day, precomputes, response, ret, report, logging>>

ArgSuccess(d) ==
    /\ pc = "input"
    /\ Len(log) < MaxSection
    /\ log' = Append(log, Line(NextTime(log, 0, d), "success", 0))
    /\ UNCHANGED <<pc, day, precomputes, response, ret, report, logging>>

ArgFailed(d) ==
    /\ pc = "input"
    /\ Len(log) < MaxSection
    /\ log' = Append(log, Line(NextTime(log, 0, d), "FAILED", 0))
    /\ UNCHANGED <<pc, day, precomputes, response, ret, report, logging>>

\* get_period_before(log, start_from, span)
CallPeriodBefore(start_from, span) ==
    /\ pc = "input"
    /\ start_from \in 1..Len(log)
    /\ ret' = [NoCall EXCEPT !.fn = "get_period_before",
                             !.start_from = start_from,
                             !.span = span,
                             !.window = get_period_before(log, start_from, span)]
    /\ pc' = "returned"
    /\ UNCHANGED <<log, day, precomputes, response, report, logging>>

\* calculate_uptime_rolling(log, p0)
CallUptimeRolling(p0) ==
    /\ pc = "input"
    /\ ret' = [NoCall EXCEPT !.fn = "calculate_uptime_rolling",
                             !.p0 = p0,
                             !.result = calculate_uptime_rolling(log, p0)]
    /\ pc' = "returned"
    /\ UNCHANGED <<log, day, precomputes, response, report, logging>>

\* the periods a caller passes: the default, a carried one, or a carried None
InitialPeriods == {Int2Float(p) : p \in FnPeriods \cup {DefaultPeriod}} \cup {None}

NextFn ==
    \/ \E p \in FnPeriods, d \in Deltas : ArgStart(p, d)
    \/ \E d \in Deltas : ArgSuccess(d)
    \/ \E d \in Deltas : ArgFailed(d)
    \/ \E i \in 1..MaxSection, span \in Spans : CallPeriodBefore(i, span)
    \/ \E p0 \in InitialPeriods : CallUptimeRolling(p0)

SpecFn == InitFn /\ [][NextFn]_vars

----------------------------------------------------------------------------
(* Direct calls on log files that also hold lines the monitor did not write *)

\* a line with a bracketed integer timestamp and a suffix the code does not know
ArgOther(d) ==
    /\ pc = "input"
    /\ Len(log) < MaxRaw
    /\ log' = Append(log, Line(NextTime(log, 0, d), "other", 0))
    /\ UNCHANGED <<pc, day, precomputes, response, ret, report, logging>>

\* a line without a bracketed integer timestamp
ArgMalformed(stamp, kind) ==
    /\ pc = "input"
    /\ Len(log) < MaxRaw
    /\ log' = Append(log, RawLine(NextTime(log, 0, 0), kind, stamp))
    /\ UNCHANGED <<pc, day, precomputes, response, ret, report, logging>>

\* a line as the monitor writes it
ArgWritten(kind, p, d) ==
    /\ pc = "input"
    /\ Len(log) < MaxRaw
    /\ log' = Append(log, Line(NextTime(log, 0, d), kind, p))
    /\ UNCHANGED <<pc, day, precomputes, response, ret, report, logging>>

\* calculate_log_rolling_uptimes(log), as /graph calls it, at the time of the first line
CallLogRollingUptimes ==
    /\ pc = "input"
    /\ LET r == calculate_log_rolling_uptimes(log, TRUE, 0)
       IN  ret' = [NoCall EXCEPT !.fn = "calculate_log_rolling_uptimes",
                                 !.result.raised = r.raised,
                                 !.out = r.uptimes]
    /\ pc' = "returned"
    /\ UNCHANGED <<log, day, precomputes, response, report, logging>>

\* process_log_file(log_path)
CallProcessLogFile ==
    /\ pc = "input"
    /\ LET r == process_log_file(log)
       IN  ret' = [NoCall EXCEPT !.fn = "process_log_file",
                                 !.result.raised = r.raised,
                                 !.out = r.tests]
    /\ pc' = "returned"
    /\ UNCHANGED <<log, day, precomputes, response, report, logging>>

NextRaw ==
    \/ CallLogRollingUptimes
    \/ CallProcessLogFile
    \/ CallUptimeRolling(Int2Float(DefaultPeriod))
    \/ \E stamp \in BadStamps, kind \in RawKinds : ArgMalformed(stamp, kind)
    \/ \E d \in Deltas : ArgOther(d)
    \/ \E d \in Deltas : ArgWritten("ms", 500, d)
    \/ \E kind \in {"success", "FAILED"}, d \in Deltas : ArgWritten(kind, 0, d)

SpecRaw == InitFn /\ [][NextRaw]_vars

----------------------------------------------------------------------------
(* Properties of the direct calls (SpecFn) *)

IsProbe(line) == line.kind \in {"success", "FAILED"}
Kinds(lines) == [i \in 1..Len(lines) |-> lines[i].kind]

\* C1: the window returned by get_period_before(log, i, span) ends with log[i], and
\* the timestamp of log[i] minus that of the earliest line of the window is < span.
C1_WindowWithinSpan ==
    ret.fn = "get_period_before" =>
        /\ ret.window # <<>>
        /\ ret.window[Len(ret.window)] = log[ret.start_from]
        /\ get_log_entry_time(log[ret.start_from])
               - get_log_entry_time(ret.window[1]) < ret.span

\* C2: calculate_uptime_rolling returns valid = True exactly when the section holds a
\* success/FAILED line, and then 0 <= ratio <= 100, for every integer period passed
\* by the caller or carried by a START line.
C2_ValidIffProbe ==
    (ret.fn = "calculate_uptime_rolling" /\ ret.p0.some) =>
        /\ ret.result.valid <=> (\E i \in 1..Len(log) : IsProbe(log[i]))
        /\ ret.result.valid =>
               /\ ~FloatLt(ret.result.ratio, 0)
               /\ ~FloatGt(ret.result.ratio, Percent)

\* the period set by the latest START line before line i of the section, else p0
RECURSIVE PeriodBefore(_, _, _)
PeriodBefore(section, i, p0) ==
    IF i = 1 THEN p0
    ELSE IF section[i - 1].kind = "ms" THEN section[i - 1].ms
    ELSE PeriodBefore(section, i - 1, p0)

\* the sum, over the lines 1..i of the given kind, of the period in force at the line
RECURSIVE Accounted(_, _, _, _)
Accounted(section, i, kind, p0) ==
    IF i = 0 THEN 0
    ELSE Accounted(section, i - 1, kind, p0)
         + (IF section[i].kind = kind THEN PeriodBefore(section, i, p0) ELSE 0)

\* C3: the percentage returned by calculate_uptime_rolling(section, p0) is
\* 100*U/(U+D), U and D the sums over the success and FAILED lines of the period set
\* by the latest START line before the line (p0 if none); START lines add no time.
\* [success, 500ms, FAILED] from 2000 gives 80, [success, 500ms, success] gives 100,
\* and success, FAILED, FAILED, success at 2000 gives 50.
C3_WeightedRatio ==
    (ret.fn = "calculate_uptime_rolling" /\ ret.result.valid) =>
        LET U == Accounted(log, Len(log), "success", ret.p0.n)
            D == Accounted(log, Len(log), "FAILED", ret.p0.n)
            from2000 == ret.p0 = Int2Float(DefaultPeriod)
        IN  /\ U + D > 0
            /\ ret.result.ratio.n * (U + D) = Percent * U * ret.result.ratio.d
            /\ (from2000 /\ Kinds(log) = <<"success", "ms", "FAILED">> /\ log[2].ms = 500)
                   => ret.result.ratio = Int2Float(80)
            /\ (from2000 /\ Kinds(log) = <<"success", "ms", "success">> /\ log[2].ms = 500)
                   => ret.result.ratio = Int2Float(100)
            /\ (from2000 /\ Kinds(log) = <<"success", "FAILED", "FAILED", "success">>)
                   => ret.result.ratio = Int2Float(50)

\* a call on [success, 500ms, FAILED] with the period 2000 has returned 80
C3_Witness ==
    /\ ret.fn = "calculate_uptime_rolling"
    /\ ret.p0 = Int2Float(DefaultPeriod)
    /\ Kinds(log) = <<"success", "ms", "FAILED">>
    /\ log[2].ms = 500
    /\ ret.result.valid
    /\ ret.result.ratio = Int2Float(80)

----------------------------------------------------------------------------
(* Properties of the rolling series and of the segmenter (Spec) *)

\* the values time.time() takes when the daily task reads the current day's log
Nows == {Midnight(day + 1) + lag : lag \in Lags}

\* the period in force when line j was written: the latest START line at or before
\* it in the whole log, 2000 if none
ActivePeriod(lines, j) == PeriodBefore(lines, j + 1, DefaultPeriod)

RECURSIVE ActiveTime(_, _, _, _)
ActiveTime(lines, lo, hi, kind) ==
    IF hi < lo THEN 0
    ELSE ActiveTime(lines, lo, hi - 1, kind)
         + (IF lines[hi].kind = kind THEN ActivePeriod(lines, hi) ELSE 0)

\* iteration i of calculate_log_rolling_uptimes appended a sample
Emits(lines, i, give, now) ==
    Len(roll(lines, i, give, now).uptimes) > Len(roll(lines, i - 1, give, now).uptimes)

LastOf(seq) == seq[Len(seq)]

\* C4: in every window the rolling series evaluates, each success/FAILED line is
\* weighted by the period that was in force when it was written. (Stated for the
\* samples anchored at a success/FAILED line of a log no line of which the lookback
\* skips.)
C4_ActivePeriodWeights ==
    LET now == Midnight(day + 1)
    IN  \A i \in 1..Len(log) :
            (IsProbe(log[i]) /\ Emits(log, i, FALSE, now)) =>
                LET lo == scan_back(log, i, i, WindowSeconds)
                    U == ActiveTime(log, lo, i, "success")
                    D == ActiveTime(log, lo, i, "FAILED")
                    ratio == LastOf(roll(log, i, FALSE, now).uptimes).ratio
                IN  /\ U + D > 0
                    /\ ratio.n * (U + D) = Percent * U * ratio.d

\* C8: no sample of the rolling series is anchored at a START line.
C8_OnlyProbesAnchor ==
    \A now \in Nows, give \in BOOLEAN : \A i \in 1..Len(log) :
        Emits(log, i, give, now) => IsProbe(log[i])

Below80(x) == FloatLt(x.ratio, EnterThreshold)
Above90(x) == FloatGt(x.ratio, ExitThreshold)

\* C5: the segmenter starts in Normal; while Normal a sample below 80 opens a
\* disruption at its position; while in a disruption a sample above 90 closes it and
\* emits one interval from the opening to the closing position; every other sample
\* changes nothing. A series above 90 yields no interval, and a first dip below 80
\* followed by a first recovery above 90 yields the interval between them.
C5_Hysteresis ==
    \A now \in Nows :
        LET r == calculate_log_rolling_uptimes(log, FALSE, now)
            u == r.uptimes
            out == calculate_disruptions(log, now).disruptions
        IN  ~r.raised =>
            /\ ~segment(u, 0).in_disruption
            /\ segment(u, 0).disruptions = <<>>
            /\ \A k \in 1..Len(u) :
                   LET a == segment(u, k - 1)
                       b == segment(u, k)
                   IN  IF ~a.in_disruption /\ Below80(u[k])
                       THEN /\ b.in_disruption
                            /\ b.start_time = u[k].pos
                            /\ b.disruptions = a.disruptions
                       ELSE IF a.in_disruption /\ Above90(u[k])
                       THEN /\ ~b.in_disruption
                            /\ b.disruptions =
                                   a.disruptions \o <<[start |-> a.start_time, end |-> u[k].pos]>>
                       ELSE b = a
            /\ (\A k \in 1..Len(u) : Above90(u[k])) => out = <<>>
            /\ \A i \in 1..Len(u), j \in 1..Len(u) :
                   ( /\ i < j
                     /\ Below80(u[i])
                     /\ \A k \in 1..(i - 1) : ~Below80(u[k])
                     /\ Above90(u[j])
                     /\ \A k \in (i + 1)..(j - 1) : ~Above90(u[k]) )
                   => /\ out # <<>>
                      /\ out[1] = [start |-> u[i].pos, end |-> u[j].pos]
                      /\ (\A k \in (j + 1)..Len(u) : ~Below80(u[k])) => Len(out) = 1

\* a log whose series dips, stays in the disruption for a sample and recovers
C5_Witness ==
    \E now \in Nows :
        LET r == calculate_log_rolling_uptimes(log, FALSE, now)
            u == r.uptimes
        IN  /\ ~r.raised
            /\ Len(u) >= 3
            /\ Below80(u[1]) /\ ~Above90(u[2]) /\ Above90(u[3])
            /\ Len(calculate_disruptions(log, now).disruptions) = 1

\* the samples at which the segmenter goes from a disruption back to Normal
Closings(u) ==
    {k \in 1..Len(u) : segment(u, k - 1).in_disruption /\ ~segment(u, k).in_disruption}

\* C6: a disruption still open when the series ends is not reported: the intervals
\* returned are as many as the transitions back to Normal, each closed by a sample
\* above 90.
C6_OnlyClosedReported ==
    \A now \in Nows :
        LET r == calculate_log_rolling_uptimes(log, FALSE, now)
            u == r.uptimes
            out == calculate_disruptions(log, now).disruptions
        IN  ~r.raised =>
            /\ Len(out) = Cardinality(Closings(u))
            /\ \A m \in 1..Len(out) :
                   \E k \in Closings(u) : Above90(u[k]) /\ out[m].end = u[k].pos

\* a series that ends inside a disruption, with nothing reported
C6_Witness ==
    \E now \in Nows :
        LET r == calculate_log_rolling_uptimes(log, FALSE, now)
            u == r.uptimes
        IN  /\ ~r.raised
            /\ u # <<>>
            /\ segment(u, Len(u)).in_disruption
            /\ calculate_disruptions(log, now).disruptions = <<>>

\* C7: every interval calculate_disruptions reports has end >= start (the lines of
\* the log carry non-decreasing timestamps).
C7_EndNotBeforeStart ==
    \A now \in Nows :
        LET out == calculate_disruptions(log, now).disruptions
        IN  \A m \in 1..Len(out) : out[m].end >= out[m].start

\* a reported interval that ends later than it starts
C7_Witness ==
    \E now \in Nows :
        LET out == calculate_disruptions(log, now).disruptions
        IN  \E m \in 1..Len(out) : out[m].end > out[m].start

----------------------------------------------------------------------------
(* Properties of the callers of calculate_uptime_rolling (Spec) *)

OnlyStartLines(lines) == lines # <<>> /\ \A i \in 1..Len(lines) : lines[i].kind = "ms"

\* C9: a valid = False result is "no sample" for every caller: the rolling series
\* emits nothing for it, the daily aggregate records no 0 uptime for it, and /uptime
\* over a log of START lines only still returns a report.
C9_InvalidIsNoSample ==
    [][ /\ \A now \in Nows : \A i \in 1..Len(log) :
               LET before == roll(log, i - 1, FALSE, now)
                   w == calculate_uptime_rolling(
                            get_period_before(log, i, WindowSeconds), before.period)
               IN  (~before.raised /\ ~w.raised /\ ~w.valid)
                       => ~Emits(log, i, FALSE, now)
        /\ ( /\ Len(precomputes') > Len(precomputes)
             /\ ~calculate_uptime_rolling(log, Int2Float(DefaultPeriod)).valid )
               => LastOf(precomputes').daily_uptime # Int2Float(0)
        /\ ( /\ response' # response
             /\ OnlyStartLines(log)
             /\ response'.status # "HTTPException" )
               => response'.status = "UptimeReport"
      ]_vars

\* C10: the daily-uptime stored in a daily aggregate is the day's percentage divided
\* by 100 and so lies in [0, 1].
C10_DailyUptimeIsFraction ==
    \A k \in 1..Len(precomputes) :
        /\ ~FloatLt(precomputes[k].daily_uptime, 0)
        /\ ~FloatGt(precomputes[k].daily_uptime, 1)

----------------------------------------------------------------------------
(* Properties of the daily aggregate's disruptions (Spec) *)

\* the disruptions of a whole day's log: the segmenter over the rolling samples of
\* every line, the clock standing at the day's first second so that no line is older
\* than the lookback
FullDayDisruptions(lines, today) == calculate_disruptions(lines, Midnight(today))

\* C11: the disruptions stored in a daily aggregate are the segmenter's output over
\* the rolling samples of every record of the full day's log: whenever the daily task
\* runs, no record of yesterday's log is left out because of its age. (Stated for
\* the logs whose full evaluation completes.)
C11_FullDayDisruptions ==
    [][ ( /\ Len(precomputes') > Len(precomputes)
          /\ ~FullDayDisruptions(log, day).raised )
            => LastOf(precomputes').disruptions = FullDayDisruptions(log, day).disruptions
      ]_vars

----------------------------------------------------------------------------
(* Properties of the period the rolling series carries (Spec) *)

\* C14: the rolling series carries an integer period from window to window whatever
\* the window's validity: after an invalid window the period carried on is the one in
\* effect at the end of that window (its last START line's, else the one carried
\* in), so the next window is evaluated without failing and with a defined period.
C14_IntegerPeriodCarried ==
    \A now \in Nows : \A i \in 1..Len(log) :
        LET before == roll(log, i - 1, FALSE, now)
            after == roll(log, i, FALSE, now)
            window == get_period_before(log, i, WindowSeconds)
            w == calculate_uptime_rolling(window, before.period)
            skipped == get_log_entry_time(log[i]) - now < -(LookbackHours * SecondsPerHour)
        IN  (~before.raised /\ before.period.some /\ ~skipped /\ ~w.raised /\ ~w.valid)
                => /\ after.period.some
                   /\ after.period =
                          Int2Float(PeriodBefore(window, Len(window) + 1, before.period.n))
                   /\ i < Len(log) => ~roll(log, i + 1, FALSE, now).raised

----------------------------------------------------------------------------
(* Properties of the calls on logs with malformed lines (SpecRaw) *)

WellFormed(line) == timestamp_parses(line) /\ line.kind # "other"
Cleaned(lines) == SelectSeq(lines, WellFormed)

\* C12: a malformed line (no or a non-integer bracketed timestamp, or an unknown
\* suffix) is skipped and aborts nothing: calculate_uptime_rolling,
\* calculate_log_rolling_uptimes and process_log_file complete on any log and return
\* what they return on the log without its malformed lines.
C12_MalformedSkipped ==
    /\ ret.fn = "calculate_uptime_rolling" =>
           ret.result = calculate_uptime_rolling(Cleaned(log), ret.p0)
    /\ ret.fn = "calculate_log_rolling_uptimes" =>
           LET r == calculate_log_rolling_uptimes(Cleaned(log), TRUE, 0)
           IN  ~r.raised => (~ret.result.raised /\ ret.out = r.uptimes)
    /\ ret.fn = "process_log_file" =>
           LET r == process_log_file(Cleaned(log))
           IN  ~ret.result.raised /\ ret.out = r.tests

----------------------------------------------------------------------------
(* uptime.py: the monthly tasks *)

\* The calendar: a date is a day number, day 0 being the first of January of year 0.
DaysPerYear == DaysPerMonth * MonthsPerYear
tm_year(date) == date \div DaysPerYear
tm_mon(date) == ((date % DaysPerYear) \div DaysPerMonth) + 1
tm_mday(date) == (date % DaysPerMonth) + 1

is_first_of_month(today) == tm_mday(today) = 1

\* time.localtime().tm_mon
calculate_last_month(today) == tm_mon(today)

\* the aggregates last_month_precomputes yields, in the order of the directory
RECURSIVE last_month_precomputes(_, _, _)
last_month_precomputes(directory, i, today) ==
    IF i > Len(directory) THEN <<>>
    ELSE IF tm_mon(directory[i].date) = calculate_last_month(today)
    THEN <<directory[i]>> \o last_month_precomputes(directory, i + 1, today)
    ELSE last_month_precomputes(directory, i + 1, today)

\* disruptions += contents["disruptions"], over the aggregates given
RECURSIVE collect_disruptions(_, _)
collect_disruptions(aggregates, i) ==
    IF i > Len(aggregates) THEN <<>>
    ELSE aggregates[i].disruptions \o collect_disruptions(aggregates, i + 1)

\* the report file: its name's year and month, and its content
generate_month_disruption_report(directory, today) ==
    [year |-> tm_year(today),
     month |-> calculate_last_month(today),
     disruptions |-> collect_disruptions(last_month_precomputes(directory, 1, today), 1)]

\* the disruption list of a daily aggregate of the given date: none, one interval at
\* the start of the day, or a second one that lasts until the day's last second
DayDisruptions(date, pattern) ==
    LET early == [start |-> Midnight(date), end |-> Midnight(date) + WindowSeconds]
        late == [start |-> Midnight(date) + WindowSeconds, end |-> Midnight(date + 1) - 1]
    IN  IF pattern = "none" THEN <<>>
        ELSE IF pattern = "early" THEN <<early>>
        ELSE <<early, late>>

MaxDate == DaysPerYear + DaysPerMonth

InitMonth ==
    /\ log = <<>>
    /\ pc = "daily"
    /\ day = 0
    /\ precomputes = <<>>
    /\ response = NoResponse
    /\ ret = NoCall
    /\ report = NoReport
    /\ handler = NoDate
    /\ start_day = NoDate
    /\ written = {}

\* perform_daily_tasks: the aggregate of yesterday, when yesterday's log is found
PerformDailyTasks(found, pattern) ==
    /\ pc = "daily"
    /\ precomputes' =
           IF /\ found
              /\ day > 0
              /\ Len(precomputes) < MaxFiles
           THEN Append(precomputes,
                       [date |-> day - 1, daily_uptime |-> Int2Float(Percent),
                        disruptions |-> DayDisruptions(day - 1, pattern)])
           ELSE precomputes
    /\ pc' = "monthly"
    /\ UNCHANGED <<log, day, response, ret, report, logging>>

\* perform_monthly_tasks
PerformMonthlyTasks ==
    /\ pc = "monthly"
    /\ report' = IF is_first_of_month(day)
                 THEN generate_month_disruption_report(precomputes, day)
                 ELSE report
    /\ pc' = "monitor"
    /\ UNCHANGED <<log, day, precomputes, response, ret, logging>>

\* start_monitor runs until the day changes
MonitorUntilMidnight ==
    /\ pc = "monitor"
    /\ day < MaxDate
    /\ day' = day + 1
    /\ pc' = "daily"
    /\ UNCHANGED <<log, precomputes, response, ret, report, logging>>

NextMonth ==
    \/ \E found \in BOOLEAN, pattern \in Patterns : PerformDailyTasks(found, pattern)
    \/ PerformMonthlyTasks
    \/ MonitorUntilMidnight

SpecMonth == InitMonth /\ [][NextMonth]_vars

----------------------------------------------------------------------------
(* Properties of the monthly disruption report (SpecMonth) *)

\* the calendar month before the one of today, as [year, month]
PreviousMonth(today) ==
    IF tm_mon(today) = 1
    THEN [year |-> tm_year(today) - 1, month |-> MonthsPerYear]
    ELSE [year |-> tm_year(today), month |-> tm_mon(today) - 1]

DatedIn(date, m) == tm_year(date) = m.year /\ tm_mon(date) = m.month

\* the aggregates of the directory dated in the month m, in the order of the directory
InMonth(directory, m) ==
    SelectSeq(directory, LAMBDA a : DatedIn(a.date, m))

RECURSIVE SumOfLengths(_, _)
SumOfLengths(aggregates, i) ==
    IF i > Len(aggregates) THEN 0
    ELSE Len(aggregates[i].disruptions) + SumOfLengths(aggregates, i + 1)

\* C13: when the monthly task runs on the first day of a month, the report lists,
\* each as its own entry, exactly the intervals of the daily aggregates dated in the
\* previous calendar month: as many as those aggregates hold together, and none of
\* another month or year.
C13_ReportIsPreviousMonth ==
    [][ (pc = "monthly" /\ is_first_of_month(day)) =>
            LET last == InMonth(precomputes, PreviousMonth(day))
                listed == report'.disruptions
            IN  /\ listed = collect_disruptions(last, 1)
                /\ Len(listed) = SumOfLengths(last, 1)
                /\ \A k \in 1..Len(listed) :
                       /\ DatedIn(listed[k].start \div SecondsPerDay, PreviousMonth(day))
                       /\ DatedIn(listed[k].end \div SecondsPerDay, PreviousMonth(day))
      ]_vars

----------------------------------------------------------------------------
(* uptime.py: the main loop and the wall clock *)

\* Here day is the date the wall clock shows. Every step of the main loop reads the
\* clock when it runs, and midnight may pass between any two steps.

\* time.localtime().tm_yday
tm_yday(date) == (date % DaysPerYear) + 1

InitLoop ==
    /\ log = <<>>
    /\ pc = "create_logging_handler"
    /\ day = 0
    /\ precomputes = <<>>
    /\ response = NoResponse
    /\ ret = NoCall
    /\ report = NoReport
    /\ handler = NoDate
    /\ start_day = NoDate
    /\ written = {}

\* the wall clock passes midnight
MidnightPasses ==
    /\ day < MaxMidnights
    /\ day' = day + 1
    /\ UNCHANGED <<log, pc, precomputes, response, ret, report, logging>>

\* create_logging_handler: the FileHandler of the file named after TODAY
CreateLoggingHandler ==
    /\ pc = "create_logging_handler"
    /\ handler' = day
    /\ pc' = "perform_daily_tasks"
    /\ UNCHANGED <<log, day, precomputes, response, ret, report, start_day, written>>

\* perform_daily_tasks (what it computes is the subject of Spec)
DailyTasksDone ==
    /\ pc = "perform_daily_tasks"
    /\ pc' = "perform_monthly_tasks"
    /\ UNCHANGED <<log, day, precomputes, response, ret, report, logging>>

\* perform_monthly_tasks (what it computes is the subject of SpecMonth)
MonthlyTasksDone ==
    /\ pc = "perform_monthly_tasks"
    /\ pc' = "start_monitor"
    /\ UNCHANGED <<log, day, precomputes, response, ret, report, logging>>

\* start_monitor, line 279
RecordStartDay ==
    /\ pc = "start_monitor"
    /\ start_day' = tm_yday(day)
    /\ pc' = "log_start"
    /\ UNCHANGED <<log, day, precomputes, response, ret, report, handler, written>>

\* the handler appends an entry, stamped int(time.time()), to its file
emit(entries, file, now) == entries \cup {[file |-> file, stamp |-> now]}

\* start_monitor, line 282: the START line
WriteStartLine ==
    /\ pc = "log_start"
    /\ written' = emit(written, handler, day)
    /\ pc' = "day_check"
    /\ UNCHANGED <<log, day, precomputes, response, ret, report, handler, start_day>>

\* start_monitor, lines 285-286
DayCheck ==
    /\ pc = "day_check"
    /\ pc' = IF tm_yday(day) # start_day THEN "create_logging_handler" ELSE "probe"
    /\ UNCHANGED <<log, day, precomputes, response, ret, report, logging>>

\* start_monitor, line 290: is_accessible runs ping
Probe ==
    /\ pc = "probe"
    /\ pc' = "log_result"
    /\ UNCHANGED <<log, day, precomputes, response, ret, report, logging>>

\* start_monitor, lines 291 and 293: the success / FAILED line
WriteResult ==
    /\ pc = "log_result"
    /\ written' = emit(written, handler, day)
    /\ pc' = "sleep"
    /\ UNCHANGED <<log, day, precomputes, response, ret, report, handler, start_day>>

\* start_monitor, lines 296-298
Sleep ==
    /\ pc = "sleep"
    /\ pc' = "day_check"
    /\ UNCHANGED <<log, day, precomputes, response, ret, report, logging>>

NextLoop ==
    \/ MidnightPasses
    \/ CreateLoggingHandler
    \/ DailyTasksDone
    \/ MonthlyTasksDone
    \/ RecordStartDay
    \/ WriteStartLine
    \/ DayCheck
    \/ Probe
    \/ WriteResult
    \/ Sleep

SpecLoop == InitLoop /\ [][NextLoop]_vars

----------------------------------------------------------------------------
(* Properties of the daily log files (SpecLoop) *)

\* C15: every entry appended to the log file of date D carries a timestamp within
\* the calendar day D, however the wall clock's passing midnight interleaves with the
\* steps of the main loop.
C15_EntriesWithinTheirDay ==
    \A e \in written : e.stamp = e.file

====
